---- MODULE Spec2Model ----
(***************************************************************************)
(* Model of the C-ABI bridge of src-rust: create(), hello() and the        *)
(* marshaling helpers of utils.rs.                                         *)
(*                                                                         *)
(* Text is a sequence of one-character strings.  Two tokens stand for      *)
(* bytes that have no printable form: NUL (the 0 byte) and BadByte (a byte *)
(* that is not valid UTF-8).  usize is WordBits wide.                      *)
(***************************************************************************)
EXTENDS Integers, Sequences, FiniteSets, TLC

\* ---------------------------------------------------------------- bounds
WordBits == 2
MaxCalls == 2
MaxHandles == 2

MaxUsize == 2^WordBits - 1
NumAddrs == 2 * MaxCalls

\* ------------------------------------------------------------ characters
NUL == "NUL"
BadByte == "xFF"
EOF == "EOF"
\* Option values: <<>> is None, <<x>> is Some(x).
None == <<>>

Some(x) == <<x>>

DigitChars == <<"0", "1", "2", "3", "4", "5", "6", "7", "8", "9">>

IsDigit(c) == \E d \in 1..10 : DigitChars[d] = c

DigitVal(c) == (CHOOSE d \in 1..10 : DigitChars[d] = c) - 1

IsWs(c) == c \in {" ", "\n", "\t", "\r"}

Peek(s, i) == IF i <= Len(s) THEN s[i] ELSE EOF

\* itoa as used by serde_json's serializer: decimal, no sign, no padding.
RECURSIVE Digits(_)
Digits(n) == IF n < 10 THEN <<DigitChars[n + 1]>>
             ELSE Digits(n \div 10) \o <<DigitChars[(n % 10) + 1]>>

Ok(v) == [ok |-> TRUE, val |-> v]


Err(m) == [ok |-> FALSE, err |-> m]

\* The(S) is the element of the one-element set S.  A routine binds the
\* result r of a step by The({ ... r ... : r \in {step} }).
The(S) == CHOOSE x \in S : TRUE

\* ----------------------------------------------------- serde_json reader
\* Each routine reads the text s from a position.
parse_whitespace(s, i0) ==
    LET skip[i \in Nat] == IF i <= Len(s) /\ IsWs(s[i]) THEN skip[i + 1] ELSE i
    IN skip[i0]

\* Accumulates decimal digits from position i0; a value that no longer fits
\* the word saturates at MaxUsize + 1 (serde_json then continues as f64).
scan_digits(s, i0) ==
    LET scan[st \in Nat \X Nat] ==
          IF st[1] <= Len(s) /\ IsDigit(s[st[1]])
          THEN The({scan[<<st[1] + 1, IF v > MaxUsize THEN MaxUsize + 1 ELSE v>>] :
                      v \in {st[2] * 10 + DigitVal(s[st[1]])}})
          ELSE [pos |-> st[1], val |-> st[2]]
    IN scan[<<i0, 0>>]

\* parse_integer + parse_number: position i is where the first digit is
\* expected.  Result kind is PosInt, NegInt, F64 or an error.
parse_integer(s, i, positive) ==
    IF ~IsDigit(Peek(s, i)) THEN Err("invalid number")
    ELSE IF s[i] = "0" /\ IsDigit(Peek(s, i + 1)) THEN Err("invalid number")
    ELSE The({ IF Peek(s, d.pos) \in {".", "e", "E"}
               THEN Ok([kind |-> "F64", n |-> d.val, pos |-> d.pos])
               ELSE IF d.val > MaxUsize
               THEN Ok([kind |-> "F64", n |-> d.val, pos |-> d.pos])
               ELSE IF positive
               THEN Ok([kind |-> "PosInt", n |-> d.val, pos |-> d.pos])
               ELSE IF d.val = 0
               THEN Ok([kind |-> "F64", n |-> 0, pos |-> d.pos])
               ELSE Ok([kind |-> "NegInt", n |-> d.val, pos |-> d.pos]) :
               d \in {scan_digits(s, i)} })

\* usize::deserialize -> deserialize_u64 -> PrimitiveVisitor for usize.
deserialize_usize(s, i0) ==
    The({ IF Peek(s, i) = EOF THEN Err("EOF while parsing a value")
          ELSE IF Peek(s, i) = "-" \/ IsDigit(Peek(s, i))
          THEN The({ IF ~r.ok THEN r
                     ELSE IF r.val.kind = "PosInt"
                     THEN Ok([n |-> r.val.n, pos |-> r.val.pos])
                     ELSE IF r.val.kind = "NegInt"
                     THEN Err("invalid value: integer, expected usize")
                     ELSE Err("invalid type: floating point, expected usize") :
                     r \in {parse_integer(s, IF s[i] = "-" THEN i + 1 ELSE i,
                                          s[i] # "-")} })
          ELSE IF Peek(s, i) \in {"\"", "[", "{"}
          THEN Err("invalid type, expected usize")
          ELSE Err("expected value") :
          i \in {parse_whitespace(s, i0)} })

\* parse_str: position i0 is the first character after the opening quote.
\* Escape sequences are outside the modelled alphabet.
parse_str(s, i0) ==
    LET chars[i \in Nat] ==
          IF i > Len(s) THEN Err("EOF while parsing a string")
          ELSE IF s[i] = "\"" THEN Ok([str |-> SubSeq(s, i0, i - 1), pos |-> i + 1])
          ELSE chars[i + 1]
    IN chars[i0]

\* IgnoredAny for a field World does not have: scalars only.
ignore_value(s, i0) ==
    The({ IF Peek(s, i) = EOF THEN Err("EOF while parsing a value")
          ELSE IF Peek(s, i) = "\""
          THEN The({ IF r.ok THEN Ok([pos |-> r.val.pos]) ELSE r :
                     r \in {parse_str(s, i + 1)} })
          ELSE IF Peek(s, i) = "-" \/ IsDigit(Peek(s, i))
          THEN The({ IF r.ok THEN Ok([pos |-> r.val.pos]) ELSE r :
                     r \in {parse_integer(s, IF s[i] = "-" THEN i + 1 ELSE i,
                                          s[i] # "-")} })
          ELSE Err("expected value") :
          i \in {parse_whitespace(s, i0)} })

SizeKey == <<"s", "i", "z", "e">>

\* serde's missing_field for a usize field: there is no default.
missing_field == Err("missing field size")

\* The derived Visitor::visit_map for World, driven by serde_json's
\* MapAccess: one application of member per key of the object.  The state
\* is <<position, first key?, size read so far>>; size is None until the
\* field has been read.  k is where the key starts, j where the colon is
\* expected.
visit_map(s, i0, first0, size0) ==
    LET member[st \in Nat \X BOOLEAN \X ({None} \cup {Some(n) : n \in 0..MaxUsize})] ==
          LET i == st[1]
              first == st[2]
              size == st[3]
          IN IF Peek(s, i) = EOF THEN Err("EOF while parsing an object")
             ELSE IF Peek(s, i) = "}"
             THEN IF size = None THEN missing_field
                  ELSE Ok([n |-> size[1], pos |-> i + 1])
             ELSE IF ~first /\ Peek(s, i) # ","
             THEN Err("expected comma or closing brace")
             ELSE The({
               IF Peek(s, k) = EOF THEN Err("EOF while parsing a value")
               ELSE IF Peek(s, k) = "}" THEN Err("trailing comma")
               ELSE IF Peek(s, k) # "\"" THEN Err("key must be a string")
               ELSE The({
                 IF ~key.ok THEN key
                 ELSE The({
                   IF Peek(s, j) = EOF THEN Err("EOF while parsing an object")
                   ELSE IF Peek(s, j) # ":" THEN Err("expected colon")
                   ELSE IF key.val.str = SizeKey /\ size # None
                   THEN Err("duplicate field size")
                   ELSE The({
                     IF ~v.ok THEN v
                     ELSE member[<<parse_whitespace(s, v.val.pos), FALSE,
                                   IF key.val.str = SizeKey THEN Some(v.val.n)
                                   ELSE size>>] :
                     v \in {IF key.val.str = SizeKey
                            THEN deserialize_usize(s, j + 1)
                            ELSE ignore_value(s, j + 1)} }) :
                   j \in {parse_whitespace(s, key.val.pos)} }) :
                 key \in {parse_str(s, k + 1)} }) :
               k \in {IF first THEN i ELSE parse_whitespace(s, i + 1)} })
    IN member[<<parse_whitespace(s, i0), first0, size0>>]

\* The derived Visitor::visit_seq for World followed by end_seq.
visit_seq(s, i0) ==
    The({ IF Peek(s, i) = EOF THEN Err("EOF while parsing a list")
          ELSE IF Peek(s, i) = "]"
          THEN Err("invalid length 0, expected struct World with 1 element")
          ELSE The({
            IF ~v.ok THEN v
            ELSE The({
              IF Peek(s, j) = EOF THEN Err("EOF while parsing a list")
              ELSE IF Peek(s, j) = "]" THEN Ok([n |-> v.val.n, pos |-> j + 1])
              ELSE Err("trailing characters") :
              j \in {parse_whitespace(s, v.val.pos)} }) :
            v \in {deserialize_usize(s, i)} }) :
          i \in {parse_whitespace(s, i0)} })

\* deserialize_struct for World: an object or a sequence, from position i0.
deserialize_struct(s, i0) ==
    The({ IF Peek(s, i) = EOF THEN Err("EOF while parsing a value")
          ELSE IF Peek(s, i) = "{" THEN visit_map(s, i + 1, TRUE, None)
          ELSE IF Peek(s, i) = "[" THEN visit_seq(s, i + 1)
          ELSE IF Peek(s, i) = "-" \/ IsDigit(Peek(s, i)) \/ Peek(s, i) = "\""
          THEN Err("invalid type, expected struct World")
          ELSE IF Peek(s, i) \in {"n", "t", "f"} THEN Err("expected ident")
          ELSE Err("expected value") :
          i \in {parse_whitespace(s, i0)} })

\* serde_json::from_str::<World>: deserialize_struct, then Deserializer::end,
\* which lets only whitespace follow the value.
from_str(s) ==
    The({ IF ~r.ok THEN r
          ELSE IF parse_whitespace(s, r.val.pos) <= Len(s)
          THEN Err("trailing characters")
          ELSE Ok([size |-> r.val.n]) :
          r \in {deserialize_struct(s, 1)} })

\* Variant: from_utf8_unchecked, no validation.
to_str_unchecked(bytes) == Ok(bytes)

\* str::from_utf8 as called by CStr::to_str.
to_str(bytes) ==
    IF \E i \in 1..Len(bytes) : bytes[i] = BadByte
    THEN Err("invalid utf-8 sequence")
    ELSE Ok(bytes)

\* The value part of cstr_json_to_type: to_str()? then from_str(..)?.
cstr_json_to_type(bytes) ==
    The({ IF ~t.ok THEN t ELSE from_str(t.val) : t \in {to_str(bytes)} })

\* ----------------------------------------------------- serde_json writer
\* Variant: the field is written under another name than it is read under.
to_string_renamed(t) ==
    <<"{", "\"", "S", "i", "z", "e", "\"", ":">> \o Digits(t.size) \o <<"}">>

\* serde_json::to_string(&World): compact form, field name then itoa.
to_string(t) ==
    <<"{", "\"">> \o SizeKey \o <<"\"", ":">> \o Digits(t.size) \o <<"}">>

\* CString::new rejects a byte string that holds an interior 0 byte.
HasNul(text) == \E i \in 1..Len(text) : text[i] = NUL

type_to_json_cstr(t) ==
    LET text == to_string(t)
    IN IF HasNul(text)
       THEN Err("nul byte found in provided data")
       ELSE Ok(text)

\* Display of a boxed error: the message as one fragment of text.
err_to_string(err) == <<err>>

\* boxed_error_to_cstring: CString::new(err.to_string()).expect(..);
\* panics when the message holds an interior 0 byte.
boxed_error_to_cstring(err) ==
    LET text == err_to_string(err)
    IN IF HasNul(text) THEN [panic |-> TRUE, text |-> <<>>]
       ELSE [panic |-> FALSE, text |-> text]

\* ------------------------------------------------------------ HelloStruct
\* World.size + 1 on a WordBits-wide usize.  With overflow checks (the dev
\* profile) the addition panics at MaxUsize; without them (the release
\* profile) it wraps.
hello(world, checks) ==
    IF world.size = MaxUsize
    THEN IF checks THEN [panic |-> TRUE, world |-> world]
         ELSE [panic |-> FALSE, world |-> [size |-> (world.size + 1) % 2^WordBits]]
    ELSE [panic |-> FALSE, world |-> [size |-> world.size + 1]]

\* ---------------------------------------------------------------- handle
\* Box::into_raw(Box::new(HelloStruct {})): HelloStruct has no fields, so
\* Box::new allocates nothing and the pointer is the dangling, aligned,
\* non-null address align_of::<HelloStruct>().
ZstDangling == 1

\* Heap blocks lie above the dangling address.
Addrs == (ZstDangling + 1)..(ZstDangling + NumAddrs)

\* ------------------------------------------------------------------ heap
\* Blocks are named in order of allocation: Alloc returns the lowest
\* address that holds no live block.
FreeBlock == [live |-> FALSE, owner |-> "none", kind |-> "none", bytes |-> <<>>]

Alloc(h) == CHOOSE a \in Addrs : ~h[a].live /\ \A b \in Addrs : b < a => h[b].live

Store(h, a, owner, kind, bytes) ==
    [h EXCEPT ![a] = [live |-> TRUE, owner |-> owner, kind |-> kind, bytes |-> bytes]]

\* Variant: the CString is dropped as an ordinary local, which frees it.
ManuallyDropCString_dropped(h, a) == [h EXCEPT ![a] = FreeBlock]

\* ManuallyDrop::new(CString::from_raw(cstr)) going out of scope at the end
\* of cstr_json_to_type: the destructor is inhibited, the block stays.
ManuallyDropCString(h, a) == h

\* Variant: as_ptr in place of into_raw; the CString is dropped at the end
\* of the match arm and the out-slot is left dangling.
into_raw_dropped(h, a) == [h EXCEPT ![a] = FreeBlock]

\* CString::into_raw: the system gives the block up; the holder of the
\* pointer owns it from here on.
into_raw(h, a) == [h EXCEPT ![a].owner = "caller"]

\* Variant: create hands out a null pointer.
create_null == ZstDangling - 1

create == ZstDangling

StatusOk == 0

\* Variant: the Err arm returns the success code.
StatusErr_success == StatusOk

StatusErr == -1

\* ----------------------------------------------------------------- inputs
Obj(n) == <<"{", "\"", "s", "i", "z", "e", "\"", ":">> \o Digits(n) \o <<"}">>

NotJson == <<"n", "o", "t", " ", "j", "s", "o", "n">>

MissingSize == <<"{", "}">>

MistypedSize == <<"{", "\"", "s", "i", "z", "e", "\"", ":", "\"", "2", "\"", "}">>

FloatSize == <<"{", "\"", "s", "i", "z", "e", "\"", ":", "2", ".", "0", "}">>

NegativeSize == <<"{", "\"", "s", "i", "z", "e", "\"", ":", "-", "1", "}">>

InvalidText == <<"{", "\"", "a", "\"", ":", "\"", BadByte, "\"", ",",
                 "\"", "s", "i", "z", "e", "\"", ":", "1", "}">>

EmptyText == <<>>

TrailingText == Obj(1) \o <<"x">>

DuplicateSize == <<"{", "\"", "s", "i", "z", "e", "\"", ":", "1", ",",
                   "\"", "s", "i", "z", "e", "\"", ":", "1", "}">>

SpacedObj == <<" ", "{", " ", "\"", "s", "i", "z", "e", "\"", " ", ":", " ", "1", " ", "}", " ">>

ExtraField == <<"{", "\"", "a", "\"", ":", "0", ",", "\"", "s", "i", "z", "e", "\"", ":", "1", "}">>

SeqForm == <<"[", "2", "]">>

WellFormedInputs == {Obj(n) : n \in 0..MaxUsize}

MalformedInputs == {NotJson, MissingSize, MistypedSize, FloatSize, NegativeSize,
                    InvalidText, EmptyText, TrailingText, DuplicateSize}

Inputs == WellFormedInputs \cup MalformedInputs
              \cup {Obj(MaxUsize + 1), SpacedObj, ExtraField, SeqForm}

\* ------------------------------------------------------------------ state
VARIABLES overflowChecks, handles, heap, pc, call, outSlot, status, trace, log, ncalls

vars == <<overflowChecks, handles, heap, pc, call, outSlot, status, trace, log, ncalls>>

NoCall == [this |-> 0, hidx |-> 0, world |-> 0, val |-> None, err |-> None,
           writes |-> 0, allocd |-> {}, freed |-> {}]

Init ==
    /\ overflowChecks \in BOOLEAN
    /\ handles = <<>>
    /\ heap = [a \in Addrs |-> FreeBlock]
    /\ pc = "Idle"
    /\ call = NoCall
    /\ outSlot = 0
    /\ status = None
    /\ trace = <<>>
    /\ log = {}
    /\ ncalls = 0

\* The host calls create() and keeps the pointer.
HostCreate ==
    /\ pc = "Idle"
    /\ Len(handles) < MaxHandles
    /\ handles' = Append(handles, create)
    /\ UNCHANGED <<overflowChecks, heap, pc, call, outSlot, status, trace, log, ncalls>>

\* The host puts an encoded buffer on the heap and enters hello(this, world,
\* result) with a handle it holds and an out-slot of its own.
HostCall ==
    /\ pc = "Idle"
    /\ ncalls < MaxCalls
    /\ \E i \in DOMAIN handles, input \in Inputs :
         LET a == Alloc(heap)
         IN /\ heap' = Store(heap, a, "caller", "inbound", input)
            /\ call' = [NoCall EXCEPT !.this = handles[i], !.hidx = i, !.world = a]
    /\ pc' = "Decoding"
    /\ outSlot' = 0
    /\ status' = None
    /\ trace' = <<"Decoding">>
    /\ UNCHANGED <<overflowChecks, handles, log, ncalls>>

\* What cstr_json_to_type makes of the inbound buffer of the call.
Decoded == cstr_json_to_type(heap[call.world].bytes)

\* lib.rs:46, cstr_json_to_type(world)?: read the inbound buffer, let the
\* ManuallyDrop wrapper go out of scope, return the value or the error.
Decode ==
    /\ pc = "Decoding"
    /\ heap' = ManuallyDropCString(heap, call.world)
    /\ call' = [call EXCEPT !.val = IF Decoded.ok THEN Some(Decoded.val) ELSE None,
                            !.err = IF Decoded.ok THEN None ELSE Some(Decoded.err),
                            !.freed = {a \in Addrs : heap[a].live /\ ~heap'[a].live}]
    /\ pc' = IF Decoded.ok THEN "Invoking" ELSE "ErrorChannel"
    /\ trace' = Append(trace, IF Decoded.ok THEN "Invoking" ELSE "ErrorChannel")
    /\ UNCHANGED <<overflowChecks, handles, outSlot, status, log, ncalls>>

\* lib.rs:47, this.hello(world).  A panic inside an extern "C" function
\* cannot unwind into the host: the process aborts.
Invoke ==
    /\ pc = "Invoking"
    /\ LET r == hello(call.val[1], overflowChecks)
       IN /\ call' = [call EXCEPT !.val = Some(r.world)]
          /\ pc' = IF r.panic THEN "Aborted" ELSE "Encoding"
          /\ trace' = Append(trace, IF r.panic THEN "Aborted" ELSE "Encoding")
    /\ UNCHANGED <<overflowChecks, handles, heap, outSlot, status, log, ncalls>>

\* lib.rs:47-52, type_to_json_cstr(..) and the Ok arm:
\* *result = new_world.into_raw(); 0
Encode ==
    /\ pc = "Encoding"
    /\ LET r == type_to_json_cstr(call.val[1])
           a == Alloc(heap)
       IN IF r.ok
          THEN /\ heap' = into_raw(Store(heap, a, "system", "payload", r.val), a)
               /\ call' = [call EXCEPT !.writes = @ + 1, !.allocd = @ \cup {a}]
               /\ outSlot' = a
               /\ status' = Some(StatusOk)
               /\ pc' = "Done"
               /\ trace' = Append(trace, "Done")
          ELSE /\ call' = [call EXCEPT !.err = Some(r.err)]
               /\ pc' = "ErrorChannel"
               /\ trace' = Append(trace, "ErrorChannel")
               /\ UNCHANGED <<heap, outSlot, status>>
    /\ UNCHANGED <<overflowChecks, handles, log, ncalls>>

\* lib.rs:53-56, the Err arm:
\* *result = boxed_error_to_cstring(err).into_raw(); -1
ErrorChannel ==
    /\ pc = "ErrorChannel"
    /\ LET r == boxed_error_to_cstring(call.err[1])
           a == Alloc(heap)
       IN IF r.panic
          THEN /\ pc' = "Aborted"
               /\ trace' = Append(trace, "Aborted")
               /\ UNCHANGED <<heap, call, outSlot, status>>
          ELSE /\ heap' = into_raw(Store(heap, a, "system", "error", r.text), a)
               /\ call' = [call EXCEPT !.writes = @ + 1, !.allocd = @ \cup {a}]
               /\ outSlot' = a
               /\ status' = Some(StatusErr)
               /\ pc' = "Done"
               /\ trace' = Append(trace, "Done")
    /\ UNCHANGED <<overflowChecks, handles, log, ncalls>>

\* hello has returned: the host reads the status and the out-slot.
HostReturn ==
    /\ pc = "Done"
    /\ log' = log \cup {[hidx |-> call.hidx, input |-> heap[call.world].bytes,
                         status |-> status[1], out |-> heap[outSlot].bytes,
                         ptr |-> outSlot]}
    /\ ncalls' = ncalls + 1
    /\ pc' = "Idle"
    /\ call' = NoCall
    /\ outSlot' = 0
    /\ status' = None
    /\ trace' = <<>>
    /\ UNCHANGED <<overflowChecks, handles, heap>>

SystemStep == Decode \/ Invoke \/ Encode \/ ErrorChannel

Next == HostCreate \/ HostCall \/ Decode \/ Invoke \/ Encode \/ ErrorChannel \/ HostReturn

Spec == Init /\ [][Next]_vars

\* hello is one synchronous native call: once entered, it keeps running.
FairSpec == Spec /\ WF_vars(SystemStep)

\* ---------------------------------------------------------------- claims
InCall == pc # "Idle"

InputOf == heap[call.world].bytes

Returned == pc = "Done"

\* C1: when hello returns, exactly one write has been made to the out-slot,
\* the status is 0 or -1, status 0 holds exactly when the out-slot holds a
\* payload-encoded buffer and status -1 exactly when it holds an error
\* message; no call writes the out-slot twice and no status exists before
\* the return.
C1_StatusSlotConsistency ==
    /\ call.writes <= 1
    /\ ~Returned => status = None
    /\ Returned =>
         /\ call.writes = 1
         /\ status \in {Some(0), Some(-1)}
         /\ outSlot \in Addrs
         /\ (status = Some(0)) <=> (/\ heap[outSlot].kind = "payload"
                                    /\ cstr_json_to_type(heap[outSlot].bytes).ok)
         /\ (status = Some(-1)) <=> (heap[outSlot].kind = "error")

C1_Witness ==
    /\ Returned
    /\ status = Some(-1)
    /\ call.writes = 1
    /\ heap[outSlot].kind = "error"

\* C2 as stated: after every call the inbound buffer is in the freed state
\* and exactly one buffer has been freed by the call.
C2_Original ==
    Returned => /\ ~heap[call.world].live
                /\ Cardinality(call.freed) = 1

\* C2 amended: the decode step never frees the inbound buffer.  From the end
\* of decoding to the return, on success and on failure, the inbound buffer
\* is live, still the caller's, holds the bytes it was given, and the call
\* has freed no buffer.
C2_InboundNotFreed ==
    pc \in {"Invoking", "Encoding", "ErrorChannel", "Done"} =>
        /\ heap[call.world].live
        /\ heap[call.world].owner = "caller"
        /\ heap[call.world].kind = "inbound"
        /\ call.freed = {}

C2_Witness ==
    /\ Returned
    /\ status = Some(-1)
    /\ InputOf = MistypedSize
    /\ heap[call.world].live

\* C3 as stated: no failure of the decode, invoke or encode step, nor of
\* building the error message, ends the process; the call never aborts.
C3_Original == pc # "Aborted"

\* C4 as stated: for every input {"size": n} with n a non-negative integer,
\* a returned call has status 0 and an out-slot buffer that decodes to
\* {"size": n + 1}.
C4_Original ==
    \A n \in 0..MaxUsize :
        (Returned /\ InputOf = Obj(n)) =>
            /\ status = Some(0)
            /\ cstr_json_to_type(heap[outSlot].bytes) = Ok([size |-> n + 1])

\* C5: for an inbound buffer that is not valid text, is not JSON, lacks the
\* size field or has a mistyped or negative size, the native logic is never
\* applied and no payload is encoded, and the call returns -1 with a
\* non-empty error message in the out-slot and no payload buffer produced.
C5_MalformedRejected ==
    (InCall /\ InputOf \in MalformedInputs) =>
        /\ pc \in {"Decoding", "ErrorChannel", "Done"}
        /\ \A k \in DOMAIN trace : trace[k] \notin {"Invoking", "Encoding"}
        /\ \A a \in call.allocd : heap[a].kind # "payload"
        /\ Returned =>
             /\ status = Some(-1)
             /\ heap[outSlot].kind = "error"
             /\ Len(heap[outSlot].bytes) > 0
             /\ \A k \in DOMAIN heap[outSlot].bytes : heap[outSlot].bytes[k] # ""

C5_Witness ==
    /\ Returned
    /\ InputOf = InvalidText
    /\ status = Some(-1)

\* C6: every payload value handed to the encoder is encoded successfully
\* (the Encoding state is always followed by Done), and decoding the buffer
\* it produced yields the value that was encoded.
C6_RoundTrip ==
    /\ \A k \in DOMAIN trace :
         (trace[k] = "Encoding" /\ k < Len(trace)) => trace[k + 1] = "Done"
    /\ (Returned /\ status = Some(0)) =>
         cstr_json_to_type(heap[outSlot].bytes) = Ok(call.val[1])

C6_Witness ==
    /\ Returned
    /\ status = Some(0)
    /\ call.val = Some([size |-> MaxUsize])
    /\ cstr_json_to_type(heap[outSlot].bytes) = Ok([size |-> MaxUsize])

DeterministicResults ==
    \A e1, e2 \in log :
        e1.input = e2.input => (e1.status = e2.status /\ e1.out = e2.out)

\* C7 as stated: the handles returned by create() are non-null and pairwise
\* distinct, and the result of a call depends only on its input buffer.
C7_Original ==
    /\ \A i \in DOMAIN handles : handles[i] # 0
    /\ \A i, j \in DOMAIN handles : i # j => handles[i] # handles[j]
    /\ DeterministicResults

\* C7 amended: create() returns a non-null handle, which need not differ
\* from the handles already live (HelloStruct has no fields, so every handle
\* is the same dangling address); the status and output of a call depend
\* only on its input buffer, whichever handle it or any earlier call was
\* made on; no handle is the address of a heap block, so no block a call
\* allocates or frees is a native object, and the handle a call was entered
\* with is the one the host still holds.
C7_HandlesIndependent ==
    /\ \A i \in DOMAIN handles : handles[i] # 0 /\ handles[i] \notin Addrs
    /\ DeterministicResults
    /\ InCall => call.this = handles[call.hidx]

C7_Witness ==
    /\ Len(handles) = 2
    /\ \E e1, e2 \in log :
         /\ e1.hidx # e2.hidx
         /\ e1.input = e2.input
         /\ e1.ptr # e2.ptr

PipelineOk == <<"Decoding", "Invoking", "Encoding", "Done">>

PipelineErr == <<"Decoding", "ErrorChannel", "Done">>

IsPrefix(t, u) == Len(t) <= Len(u) /\ \A k \in DOMAIN t : t[k] = u[k]

\* C8 as stated: every call that has started eventually reaches Done; the
\* states visited are Decoding, Invoking, Encoding, Done in that order, or
\* Decoding, Error Channel, Done when decoding fails; the out-slot is
\* written only on reaching Done.
C8_Original ==
    /\ [](IsPrefix(trace, PipelineOk) \/ IsPrefix(trace, PipelineErr))
    /\ []((outSlot # 0) => Returned)
    /\ ((pc = "Decoding") ~> Returned)

\* C9: when a call returns, the system has allocated exactly one buffer in
\* it, that buffer is live, is not the inbound buffer, its address is the
\* value in the out-slot and it belongs to the caller; the outbound buffer
\* of every earlier call is still live, still the caller's and still holds
\* what was returned, and no two calls returned the same buffer.
C9_OutboundOwnership ==
    /\ Returned =>
         /\ Cardinality(call.allocd) = 1
         /\ call.allocd = {outSlot}
         /\ heap[outSlot].live
         /\ heap[outSlot].owner = "caller"
         /\ heap[outSlot].kind \in {"payload", "error"}
         /\ outSlot # call.world
         /\ \A e \in log : e.ptr # outSlot
    /\ \A e \in log :
         /\ heap[e.ptr].live
         /\ heap[e.ptr].owner = "caller"
         /\ heap[e.ptr].kind \in {"payload", "error"}
         /\ heap[e.ptr].bytes = e.out
         /\ InCall => e.ptr # call.world
    /\ \A e1, e2 \in log : e1.ptr = e2.ptr => e1 = e2

C9_Witness ==
    /\ Returned
    /\ status = Some(0)
    /\ log # {}
    /\ heap[outSlot].owner = "caller"
    /\ \A e \in log : heap[e.ptr].live /\ e.ptr # outSlot

\* C10 as stated: for every input {"size": n} with n in the full range of
\* the machine word, a status 0 result carries size n + 1, which is not
\* smaller than n.
C10_Original ==
    \A n \in 0..MaxUsize :
        (Returned /\ InputOf = Obj(n) /\ status = Some(0)) =>
            /\ call.val[1].size = n + 1
            /\ call.val[1].size >= n
====
